---- MODULE Spec2Model ----
(***************************************************************************)
(* YUSR LinRZ (src/linrz.py): the CompressionEngine (format dispatch, tree *)
(* walk, statistics, progress messages) and the YUSRLinRZGUI glue that     *)
(* runs engine calls on background threads and posts callbacks to the Tk   *)
(* event loop.                                                             *)
(*                                                                         *)
(* Paths are sequences of path components (<<"d","s","b">> is d/s/b). An   *)
(* archive file name is the sequence of its dot-separated parts            *)
(* (<<"a","tar","gz">> is "a.tar.gz", <<"","zip">> is ".zip"). A text      *)
(* (progress message, exception message) is a record [tag, arg]: the       *)
(* literal part of the f-string and the value interpolated into it.        *)
(***************************************************************************)
EXTENDS Integers, Sequences, FiniteSets, TLC

\* ------------------------------------------------------------------ bounds
MaxNameParts == 3     \* dot-separated parts of an archive file name
MaxMembers   == 2     \* members an archive to extract can hold
MaxOutSize   == 4     \* size of a written archive, in bytes
MaxTasks     == 2     \* background tasks the user starts in one run

\* ------------------------------------------------------- texts and values
None == "None"

Text(tag, arg) == [tag |-> tag, arg |-> arg]

NoText == Text(None, <<>>)

Ready == Text("Ready", <<>>)

NoExc == [type |-> None, msg |-> NoText]

Exc(type, tag, arg) == [type |-> type, msg |-> Text(tag, arg)]

\* The names the listing of an archive returns, in archive order.
MemberNames == <<"m1", "m2", "m3", "m4">>

\* ------------------------------------------------------------- filesystem
\* The tree the user can compress from: directories, and files with sizes.
Dirs == {<<"d">>, <<"d", "s">>, <<"d", "s", "t">>, <<"z">>}

FileSize == (<<"d", "a">> :> 2) @@ (<<"d", "s", "b">> :> 1)
            @@ (<<"z", "e">> :> 0) @@ (<<"f">> :> 3)

Files == DOMAIN FileSize

\* A path that names nothing.
Missing == <<"x">>

Sources == Dirs \cup Files \cup {Missing}

Exists(p) == p \in Dirs \cup Files

IsFile(p) == p \in Files

\* Path.rglob('*'): everything strictly below source, files and directories.
RGlobSet(source) ==
  {p \in Dirs \cup Files :
     /\ Len(p) > Len(source)
     /\ SubSeq(p, 1, Len(source)) = source}

RECURSIVE SetToSeq(_)
SetToSeq(S) ==
  IF S = {} THEN <<>>
  ELSE LET x == CHOOSE y \in S : TRUE IN <<x>> \o SetToSeq(S \ {x})

RGlob(source) == SetToSeq(RGlobSet(source))

\* A slip of the walk: names relative to the source itself.
RelativeToSource(p, source) == SubSeq(p, Len(source) + 1, Len(p))

\* file_path.relative_to(source.parent)
RelativeToParent(p, source) == SubSeq(p, Len(source), Len(p))

\* source.name, as a one-component path
BaseName(source) == <<source[Len(source)]>>

\* ---------------------------------------------------- archive file names
\* The parts a name is made of after its first dot.
Parts == {"a", "", "zip", "ZIP", "tar", "gz", "tgz", "rar", "7z", "bz2", "xz"}

RECURSIVE SeqsUpTo(_, _)
SeqsUpTo(S, n) ==
  IF n = 0 THEN {<<>>}
  ELSE LET shorter == SeqsUpTo(S, n - 1)
       IN shorter \cup {Append(s, x) : s \in {t \in shorter : Len(t) = n - 1}, x \in S}

\* What stands before the first dot of a name: "" for a hidden file.
Stems == {"a", ""}

\* A file name has at least one character that is not a dot.
ArchiveNames ==
  {n \in {<<st>> \o rest : st \in Stems, rest \in SeqsUpTo(Parts, MaxNameParts - 1)} :
     \E i \in 1..Len(n) : n[i] # ""}

\* str.lower() on one part
Lower(c) == CASE c = "ZIP" -> "zip" [] OTHER -> c

LowerAll(s) == [i \in 1..Len(s) |-> Lower(s[i])]

\* name.lstrip('.'): a leading empty part is a leading dot
RECURSIVE LStripDots(_)
LStripDots(n) ==
  IF Len(n) > 1 /\ n[1] = "" THEN LStripDots(Tail(n)) ELSE n

\* PurePath.suffixes: each element stands for '.' + part
Suffixes(n) ==
  IF Len(n) >= 2 /\ n[Len(n)] = "" THEN <<>>
  ELSE Tail(LStripDots(n))

\* ''.join(archive.suffixes).lower()
ExtOf(n) == LowerAll(Suffixes(n))

\* 0 < name.rfind('.') < len(name) - 1
HasSuffix(n) ==
  /\ Len(n) >= 2
  /\ n[Len(n)] # ""
  /\ (Len(n) >= 3 \/ n[1] # "")

\* PurePath.suffix, without its leading dot ("" when there is none)
Suffix(n) == IF HasSuffix(n) THEN n[Len(n)] ELSE ""

\* PurePath.stem
Stem(n) == IF HasSuffix(n) THEN SubSeq(n, 1, Len(n) - 1) ELSE n

\* CompressionEngine.SUPPORTED_FORMATS['decompress'], each as its parts
SUPPORTED_DECOMPRESS ==
  {<<"zip">>, <<"rar">>, <<"7z">>, <<"tar">>, <<"tar", "gz">>,
   <<"tar", "bz2">>, <<"tar", "xz">>, <<"tgz">>}

\* --------------------------------------------------------------- formats
ComboFormats == {"zip", "tar.gz", "tar.bz2", "tar.xz", "7z"}

FormatTypes == ComboFormats \cup {"tgz", "rar", "ZIP", "tar"}

\* str.upper() on a format name
Upper(f) ==
  CASE f = "zip" -> "ZIP" [] f = "tar.gz" -> "TAR.GZ" [] f = "tar.bz2" -> "TAR.BZ2"
    [] f = "tar.xz" -> "TAR.XZ" [] f = "7z" -> "7Z" [] f = "tgz" -> "TGZ"
    [] f = "rar" -> "RAR" [] f = "tar" -> "TAR" [] OTHER -> f

\* ------------------------------------------------------ engine: one call
(* A call is the arguments of compress/decompress together with what the   *)
(* environment answers during it: for decompress whether the archive       *)
(* exists and how many members the library lists, for compress the size    *)
(* of the archive the library wrote.                                       *)
CompressCall(src, out, fmt, outsize) ==
  [op |-> "compress", src |-> src, out |-> out, fmt |-> fmt,
   exists |-> Exists(src), nmem |-> 0, outsize |-> outsize]

DecompressCall(name, outdir, exists, nmem) ==
  [op |-> "decompress", src |-> name, out |-> outdir, fmt |-> None,
   exists |-> exists, nmem |-> nmem, outsize |-> 0]

NoUpd == [kind |-> "none", files |-> 0, size |-> 0]

\* One step of a codec: what it creates on disk, the member it adds to the
\* archive, its update of self.stats and the progress message it sends.
Step(msg, create, upd, member) ==
  [msg |-> msg, create |-> create, upd |-> upd, member |-> member]

NoCodec == [codec |-> None, mode |-> None]

ZeroStats == [files |-> 0, size |-> 0]

ApplyUpd(st, upd) ==
  CASE upd.kind = "set"      -> [files |-> upd.files, size |-> upd.size]
    [] upd.kind = "add"      -> [files |-> st.files + upd.files, size |-> st.size + upd.size]
    [] upd.kind = "setfiles" -> [st EXCEPT !.files = upd.files]
    [] OTHER                 -> st

\* The body shared by _compress_zip, _compress_tar and _compress_7z: the
\* archive is opened (created), then a file source is written under its
\* base name, a directory source is walked and its regular files written.
WalkSteps(source, out) ==
  LET open == Step(NoText, {[kind |-> "file", name |-> out]}, NoUpd, <<>>)
      walk == RGlob(source)
      kept == SelectSeq(walk, IsFile)
  IN IF IsFile(source)
     THEN <<open,
            Step(Text("Added: ", BaseName(source)), {},
                 [kind |-> "set", files |-> 1, size |-> FileSize[source]],
                 BaseName(source))>>
     ELSE <<open>> \o
          [i \in 1..Len(kept) |->
             Step(Text("Adding: ", RelativeToParent(kept[i], source)), {},
                  [kind |-> "add", files |-> 1, size |-> FileSize[kept[i]]],
                  RelativeToParent(kept[i], source))]

\* mode_map.get(compression, 'w')
TarMode(compression) ==
  CASE compression = "gz" -> "w:gz" [] compression = "bz2" -> "w:bz2"
    [] compression = "xz" -> "w:xz" [] OTHER -> "w"

\* A slip of the branch table: 'tgz' is forgotten.
CompressDispatch_NoTgz(fmt) ==
  CASE fmt = "zip"     -> [codec |-> "_compress_zip", mode |-> "w"]
    [] fmt = "tar.gz"  -> [codec |-> "_compress_tar", mode |-> "w:gz"]
    [] fmt = "tar.bz2" -> [codec |-> "_compress_tar", mode |-> "w:bz2"]
    [] fmt = "tar.xz"  -> [codec |-> "_compress_tar", mode |-> "w:xz"]
    [] fmt = "7z"      -> [codec |-> "_compress_7z", mode |-> "w"]
    [] OTHER           -> [codec |-> None, mode |-> None]

\* The branch table of compress: the codec method it calls, or none.
CompressDispatch(fmt) ==
  CASE fmt = "zip"              -> [codec |-> "_compress_zip", mode |-> "w"]
    [] fmt \in {"tar.gz", "tgz"} -> [codec |-> "_compress_tar", mode |-> TarMode("gz")]
    [] fmt = "tar.bz2"          -> [codec |-> "_compress_tar", mode |-> TarMode("bz2")]
    [] fmt = "tar.xz"           -> [codec |-> "_compress_tar", mode |-> TarMode("xz")]
    [] fmt = "7z"               -> [codec |-> "_compress_7z", mode |-> "w"]
    [] OTHER                    -> NoCodec

\* The branch table of decompress on ext = ''.join(suffixes).lower().
DecompressDispatch(ext) ==
  CASE ext = <<"zip">> -> "_decompress_zip"
    [] ext = <<"rar">> -> "_decompress_rar"
    [] ext = <<"7z">>  -> "_decompress_7z"
    [] ext \in {<<"tar", "gz">>, <<"tgz">>, <<"tar", "bz2">>, <<"tar", "xz">>, <<"tar">>}
                       -> "_decompress_tar"
    [] OTHER           -> None

\* The body shared by the _decompress_* methods: list the members, record
\* their number, extract them with one message each.
ExtractSteps(nmem) ==
  <<Step(NoText, {}, [kind |-> "setfiles", files |-> nmem, size |-> 0], <<>>)>> \o
  [i \in 1..nmem |-> Step(Text("Extracting: ", <<MemberNames[i]>>), {}, NoUpd, <<>>)]

\* output_dir=None, an argument that is no path
NoDir == <<>>

\* output_dir, or archive.stem when it is None; the directory is taken to
\* be one that mkdir(parents=True, exist_ok=True) can create.
OutputPath(c) == IF c.out = NoDir THEN Stem(c.src) ELSE c.out

\* A slip of compress: the first message is sent before the source is
\* looked up.
CompressPlan_MessageFirst(c, has7z) ==
  LET start == Step(Text("Starting compression to ", <<Upper(c.fmt)>>), {}, NoUpd, <<>>)
      d     == CompressDispatch(c.fmt)
  IN IF ~c.exists
     THEN [pre |-> NoExc, steps |-> <<start>>, called |-> NoCodec,
           exc |-> Exc("FileNotFoundError", "Source path not found: ", c.src)]
     ELSE IF d = NoCodec
     THEN [pre |-> NoExc, steps |-> <<start>>, called |-> NoCodec,
           exc |-> Exc("ValueError", "Unsupported compression format: ", <<c.fmt>>)]
     ELSE IF d.codec = "_compress_7z" /\ ~has7z
     THEN [pre |-> NoExc, steps |-> <<start>>, called |-> d,
           exc |-> Exc("ImportError", "py7zr not installed. Install with: pip install py7zr", <<>>)]
     ELSE [pre |-> NoExc, steps |-> <<start>> \o WalkSteps(c.src, c.out),
           called |-> d, exc |-> NoExc]

(* The plan of a call: the exception raised before anything else (pre),    *)
(* the steps it then runs, the codec method the branch table selects, and  *)
(* the exception that ends the call after those steps, if any.             *)
CompressPlan(c, has7z) ==
  LET start == Step(Text("Starting compression to ", <<Upper(c.fmt)>>), {}, NoUpd, <<>>)
      d     == CompressDispatch(c.fmt)
  IN IF ~c.exists
     THEN [pre |-> Exc("FileNotFoundError", "Source path not found: ", c.src),
           steps |-> <<>>, called |-> NoCodec, exc |-> NoExc]
     ELSE IF d = NoCodec
     THEN [pre |-> NoExc, steps |-> <<start>>, called |-> NoCodec,
           exc |-> Exc("ValueError", "Unsupported compression format: ", <<c.fmt>>)]
     ELSE IF d.codec = "_compress_7z" /\ ~has7z
     THEN [pre |-> NoExc, steps |-> <<start>>, called |-> d,
           exc |-> Exc("ImportError", "py7zr not installed. Install with: pip install py7zr", <<>>)]
     ELSE [pre |-> NoExc, steps |-> <<start>> \o WalkSteps(c.src, c.out),
           called |-> d, exc |-> NoExc]

DecompressPlan(c, has7z, hasRar) ==
  LET mkdir == Step(NoText, {[kind |-> "dir", name |-> OutputPath(c)]}, NoUpd, <<>>)
      start == Step(Text("Starting extraction...", <<>>), {}, NoUpd, <<>>)
      ext   == ExtOf(c.src)
      m     == DecompressDispatch(ext)
      d     == [codec |-> m, mode |-> IF m = None THEN None ELSE "r"]
  IN IF ~c.exists
     THEN [pre |-> Exc("FileNotFoundError", "Archive not found: ", c.src),
           steps |-> <<>>, called |-> NoCodec, exc |-> NoExc]
     ELSE IF m = None
     THEN [pre |-> NoExc, steps |-> <<mkdir, start>>, called |-> NoCodec,
           exc |-> Exc("ValueError", "Unsupported archive format: ", ext)]
     ELSE IF m = "_decompress_rar" /\ ~hasRar
     THEN [pre |-> NoExc, steps |-> <<mkdir, start>>, called |-> d,
           exc |-> Exc("ImportError", "rarfile not installed. Install with: pip install rarfile", <<>>)]
     ELSE IF m = "_decompress_7z" /\ ~has7z
     THEN [pre |-> NoExc, steps |-> <<mkdir, start>>, called |-> d,
           exc |-> Exc("ImportError", "py7zr not installed. Install with: pip install py7zr", <<>>)]
     ELSE [pre |-> NoExc, steps |-> <<mkdir, start>> \o ExtractSteps(c.nmem),
           called |-> d, exc |-> NoExc]

Plan(c, has7z, hasRar) ==
  IF c.op = "compress" THEN CompressPlan(c, has7z) ELSE DecompressPlan(c, has7z, hasRar)

\* A slip of the ratio: the division is not guarded.
Ratio_NoGuard(output_size, size) ==
  [num |-> (size - output_size) * 100, den |-> size]

\* compression_ratio, kept exact as the fraction num/den:
\* (1 - output_size / size) * 100 = (size - output_size) * 100 / size
Ratio(output_size, size) ==
  IF size > 0 THEN [num |-> (size - output_size) * 100, den |-> size]
  ELSE [num |-> 0, den |-> 1]

NoResult == [op |-> None]

\* The dictionary a call returns, read from self.stats at its end.
ResultOf(c, st) ==
  IF c.op = "compress"
  THEN [op |-> "compress", files |-> st.files, original_size |-> st.size,
        compressed_size |-> c.outsize, ratio |-> Ratio(c.outsize, st.size)]
  ELSE [op |-> "decompress", files |-> st.files, output_path |-> OutputPath(c)]

RECURSIVE FoldStats(_, _)
FoldStats(st, steps) ==
  IF steps = <<>> THEN st ELSE FoldStats(ApplyUpd(st, Head(steps).upd), Tail(steps))

RECURSIVE MsgsOf(_)
MsgsOf(steps) ==
  IF steps = <<>> THEN <<>>
  ELSE (IF Head(steps).msg = NoText THEN <<>> ELSE <<Head(steps).msg>>) \o MsgsOf(Tail(steps))

RECURSIVE MembersOf(_)
MembersOf(steps) ==
  IF steps = <<>> THEN <<>>
  ELSE (IF Head(steps).member = <<>> THEN <<>> ELSE <<Head(steps).member>>) \o MembersOf(Tail(steps))

RECURSIVE CreatedBy(_)
CreatedBy(steps) ==
  IF steps = <<>> THEN {} ELSE Head(steps).create \cup CreatedBy(Tail(steps))

\* A slip of compress/decompress: the statistics are not reset.
ResetStats_Keep(st) == st

\* self.stats = {'files': 0, 'size': 0} at the head of compress/decompress
ResetStats(st) == ZeroStats

\* ------------------------------------------------------------------ state
VARIABLES
  HAS_7Z,     \* py7zr was importable
  HAS_RAR,    \* rarfile was importable
  stats,      \* CompressionEngine.stats of the one engine
  last,       \* the engine call a direct caller made last: the statistics
              \* it found, what it did, what it returned or raised
  thr,        \* the background threads: position and locals of each task()
  queue,      \* callbacks posted with root.after(0, ...), oldest first
  label,      \* progress_var, the text of the progress label
  modal,      \* open message boxes, innermost last, each with what follows it
  shown,      \* the message boxes shown so far
  dialog      \* the "Add to Archive" dialog and its three fields

vars == <<HAS_7Z, HAS_RAR, stats, last, thr, queue, label, modal, shown, dialog>>

engineVars == <<HAS_7Z, HAS_RAR, stats, last>>

guiVars == <<thr, queue, label, modal, shown, dialog>>

NoCall == [op |-> None, src |-> <<>>, out |-> <<>>, fmt |-> None,
           exists |-> FALSE, nmem |-> 0, outsize |-> 0]

NoLast == [call |-> NoCall, before |-> ZeroStats, exc |-> NoExc, msgs |-> <<>>, called |-> NoCodec,
           members |-> <<>>, created |-> {}, result |-> NoResult]

NoFrame == [pc |-> "none", call |-> NoCall, i |-> 0, e |-> NoText,
            raised |-> NoExc, applied |-> <<>>]

ClosedDialog == [open |-> FALSE, source |-> <<>>, output |-> <<>>, fmt |-> None]

Tasks == 1..MaxTasks

Init ==
  /\ HAS_7Z \in BOOLEAN
  /\ HAS_RAR \in BOOLEAN
  /\ stats = ZeroStats
  /\ last = NoLast
  /\ thr = [t \in Tasks |-> NoFrame]
  /\ queue = <<>>
  /\ label = Ready
  /\ modal = <<>>
  /\ shown = {}
  /\ dialog = ClosedDialog

\* ------------------------------------------- the engine, called directly
EngineOutputs == {<<"archive", "zip">>, <<"b">>}

EngineOutDirs == {NoDir, <<"out">>}

\* compress()/decompress() run to their end by one caller: the exists check,
\* the message, the branch table, the codec, the returned dictionary.
EngineCall(c) ==
  LET p   == Plan(c, HAS_7Z, HAS_RAR)
      st0 == ResetStats(stats)
      st1 == IF p.pre # NoExc THEN st0 ELSE FoldStats(st0, p.steps)
      exc == IF p.pre # NoExc THEN p.pre ELSE p.exc
  IN /\ stats' = st1
     /\ last' = [call |-> c, before |-> stats, exc |-> exc, msgs |-> MsgsOf(p.steps),
                 called |-> p.called, members |-> MembersOf(p.steps),
                 created |-> CreatedBy(p.steps),
                 result |-> IF exc = NoExc THEN ResultOf(c, st1) ELSE NoResult]
     /\ UNCHANGED <<HAS_7Z, HAS_RAR>>
     /\ UNCHANGED guiVars

Compress ==
  /\ last = NoLast
  /\ \E src \in Sources, out \in EngineOutputs, fmt \in FormatTypes, sz \in 0..MaxOutSize :
       EngineCall(CompressCall(src, out, fmt, sz))

Decompress ==
  /\ last = NoLast
  /\ \E name \in ArchiveNames, dir \in EngineOutDirs, ex \in BOOLEAN, n \in 0..MaxMembers :
       EngineCall(DecompressCall(name, dir, ex, n))

\* The caller takes the returned dictionary (or the exception) and goes on.
Returned ==
  /\ last # NoLast
  /\ last' = NoLast
  /\ UNCHANGED <<HAS_7Z, HAS_RAR, stats>>
  /\ UNCHANGED guiVars

NextEngine == Compress \/ Decompress \/ Returned

SpecEngine == Init /\ [][NextEngine]_vars

\* ------------------------------------------------------------- the GUI
\* What the user can put in the fields of the compress dialog.
GuiSources == {<<>>, <<"f">>, Missing}

GuiOutputs == {<<>>, <<"archive", "zip">>}

\* The archive the user picks in the file chooser of the extract dialog.
ChosenArchives == {<<"a", "zip">>}

\* The files of the current directory the user double-clicks.
ListedFiles == {<<"a", "b", "zip">>, <<"a">>}

GuiOutDirs == {<<"out">>}

\* The formats the user picks among the values of the combobox.
GuiFormats == {"zip", "tar.gz"}

\* The size of the archive a task writes, the members of one it extracts.
GuiOutSizes == {MaxOutSize}

GuiMembers == {1}

Started == Cardinality({t \in Tasks : thr[t].pc # "none"})

Running(t) == thr[t].pc \notin {"none", "done"}

\* No message box and no dialog holds the grab: the main window takes input.
MainWindowFree == modal = <<>> /\ ~dialog.open

Callback(kind, t, msg, result) ==
  [kind |-> kind, t |-> t, msg |-> msg, result |-> result]

Box(kind, t, text, cont, arg) ==
  [kind |-> kind, t |-> t, text |-> text, cont |-> cont, arg |-> arg]

\* threading.Thread(target=task, daemon=True).start()
StartThread(c) ==
  LET t == Started + 1
  IN thr' = [thr EXCEPT ![t] = [NoFrame EXCEPT !.pc = "begin", !.call = c]]

\* compress_files(source, output, format_type)
compress_files(source, output, fmt, sz) ==
  StartThread(CompressCall(source, output, fmt, sz))

\* extract_archive(archive_path, output_dir)
extract_archive(name, dir, n) ==
  StartThread(DecompressCall(name, dir, TRUE, n))

\* compress_dialog(): the dialog opens with its default field values.
compress_dialog ==
  /\ MainWindowFree
  /\ dialog' = [open |-> TRUE, source |-> <<>>,
                output |-> <<"archive", "zip">>, fmt |-> "zip"]
  /\ UNCHANGED <<thr, queue, label, modal, shown>>
  /\ UNCHANGED engineVars

\* The user fills the source entry (typing, select_file, select_folder).
SetSource ==
  /\ dialog.open /\ modal = <<>>
  /\ \E src \in GuiSources : dialog' = [dialog EXCEPT !.source = src]
  /\ UNCHANGED <<thr, queue, label, modal, shown>>
  /\ UNCHANGED engineVars

\* The user edits the archive name entry.
SetOutput ==
  /\ dialog.open /\ modal = <<>>
  /\ \E out \in GuiOutputs : dialog' = [dialog EXCEPT !.output = out]
  /\ UNCHANGED <<thr, queue, label, modal, shown>>
  /\ UNCHANGED engineVars

\* The user picks a format in the read-only combobox.
SetFormat ==
  /\ dialog.open /\ modal = <<>>
  /\ \E fmt \in GuiFormats : dialog' = [dialog EXCEPT !.fmt = fmt]
  /\ UNCHANGED <<thr, queue, label, modal, shown>>
  /\ UNCHANGED engineVars

\* A slip of do_compress's check: only the source is looked at.
MissingInput_SourceOnly(d) == d.source = <<>>

\* not source or not output
MissingInput(d) == d.source = <<>> \/ d.output = <<>>

\* do_compress(): the OK button of the compress dialog.
do_compress(limit) ==
  /\ dialog.open /\ modal = <<>>
  /\ IF MissingInput(dialog)
     THEN LET box == Box("showerror", 0, Text("Please select source and output", <<>>),
                         "none", NoCall)
          IN /\ modal' = Append(modal, box)
             /\ shown' = shown \cup {[kind |-> box.kind, t |-> 0, text |-> box.text]}
             /\ UNCHANGED <<dialog, thr>>
     ELSE /\ Started < limit
          /\ dialog' = ClosedDialog
          /\ \E sz \in GuiOutSizes :
               compress_files(dialog.source, dialog.output, dialog.fmt, sz)
          /\ UNCHANGED <<modal, shown>>
  /\ UNCHANGED <<queue, label>>
  /\ UNCHANGED engineVars

\* dialog.destroy, the Cancel button
CancelDialog ==
  /\ dialog.open /\ modal = <<>>
  /\ dialog' = ClosedDialog
  /\ UNCHANGED <<thr, queue, label, modal, shown>>
  /\ UNCHANGED engineVars

\* extract_dialog(): an archive and an output directory are chosen.
extract_dialog(limit) ==
  /\ MainWindowFree
  /\ Started < limit
  /\ \E name \in ChosenArchives, dir \in GuiOutDirs, n \in GuiMembers :
       extract_archive(name, dir, n)
  /\ UNCHANGED <<queue, label, modal, shown, dialog>>
  /\ UNCHANGED engineVars

\* on_double_click() on a listed file whose type is an archive type: the
\* question "Extract name?" is asked.
on_double_click ==
  /\ MainWindowFree
  /\ \E name \in ListedFiles, n \in GuiMembers :
       /\ Lower(Suffix(name)) \in {"zip", "rar", "7z", "tar", "gz", "bz2", "xz"}
       /\ modal' = Append(modal, Box("askyesno", 0, Text("Extract ", name), "extract",
                                     DecompressCall(name, NoDir, TRUE, n)))
  /\ UNCHANGED <<thr, queue, label, shown, dialog>>
  /\ UNCHANGED engineVars

\* The user answers the innermost message box; what follows the box in the
\* handler that opened it then runs.
Top == modal[Len(modal)]

Pop == SubSeq(modal, 1, Len(modal) - 1)

\* Yes to "Extract name?": extract_archive(archive_path)
AnswerYes(limit) ==
  /\ modal # <<>> /\ Top.kind = "askyesno"
  /\ Started < limit
  /\ modal' = Pop
  /\ StartThread(Top.arg)
  /\ UNCHANGED <<queue, label, shown, dialog>>
  /\ UNCHANGED engineVars

AnswerNo ==
  /\ modal # <<>> /\ Top.kind = "askyesno"
  /\ modal' = Pop
  /\ UNCHANGED <<thr, queue, label, shown, dialog>>
  /\ UNCHANGED engineVars

\* OK on a showerror/showinfo box. After the box of compression_complete or
\* extraction_complete: progress_var.set("Ready"), refresh_file_list().
Dismiss ==
  /\ modal # <<>> /\ Top.kind \in {"showerror", "showinfo"}
  /\ modal' = Pop
  /\ label' = IF Top.cont = "complete" THEN Ready ELSE label
  /\ UNCHANGED <<thr, queue, shown, dialog>>
  /\ UNCHANGED engineVars

\* ---- the background thread: task()
\* The head of compress/decompress: the statistics are reset, the path is
\* looked up.
TaskBegin(t) ==
  /\ thr[t].pc = "begin"
  /\ stats' = ResetStats(stats)
  /\ LET p == Plan(thr[t].call, HAS_7Z, HAS_RAR)
     IN thr' = [thr EXCEPT ![t] =
                  IF p.pre # NoExc
                  THEN [@ EXCEPT !.pc = "except", !.e = p.pre.msg, !.raised = p.pre]
                  ELSE [@ EXCEPT !.pc = "run", !.i = 1]]
  /\ UNCHANGED <<HAS_7Z, HAS_RAR, last, queue, label, modal, shown, dialog>>

\* A slip of update_progress: the callback jumps the queue.
update_progress_Prepend(t, msg) ==
  IF msg = NoText THEN queue' = queue
  ELSE queue' = <<[kind |-> "progress", t |-> t, msg |-> msg, result |-> [op |-> None]]>> \o queue

\* update_progress(message): root.after(0, lambda: progress_var.set(message))
update_progress(t, msg) ==
  IF msg = NoText THEN queue' = queue
  ELSE queue' = Append(queue, Callback("progress", t, msg, NoResult))

\* The next step of the call: what it writes, its statistics, its message.
TaskStep(t) ==
  /\ thr[t].pc = "run"
  /\ LET p == Plan(thr[t].call, HAS_7Z, HAS_RAR)
     IN /\ thr[t].i <= Len(p.steps)
        /\ stats' = ApplyUpd(stats, p.steps[thr[t].i].upd)
        /\ update_progress(t, p.steps[thr[t].i].msg)
        /\ thr' = [thr EXCEPT ![t].i = @ + 1]
  /\ UNCHANGED <<HAS_7Z, HAS_RAR, last, label, modal, shown, dialog>>

\* The call ends: it raises, or returns its dictionary and task() posts
\* compression_complete / extraction_complete.
TaskReturn(t) ==
  /\ thr[t].pc = "run"
  /\ LET p == Plan(thr[t].call, HAS_7Z, HAS_RAR)
     IN /\ thr[t].i > Len(p.steps)
        /\ IF p.exc # NoExc
           THEN /\ thr' = [thr EXCEPT ![t].pc = "except", ![t].e = p.exc.msg,
                                      ![t].raised = p.exc]
                /\ queue' = queue
           ELSE /\ thr' = [thr EXCEPT ![t].pc = "done"]
                /\ queue' = Append(queue, Callback("complete", t, NoText,
                                                   ResultOf(thr[t].call, stats)))
  /\ UNCHANGED <<HAS_7Z, HAS_RAR, stats, last, label, modal, shown, dialog>>

\* except Exception as e: root.after(0, lambda: messagebox.showerror("Error", str(e)))
TaskExcept1(t) ==
  /\ thr[t].pc = "except"
  /\ queue' = Append(queue, Callback("error", t, NoText, NoResult))
  /\ thr' = [thr EXCEPT ![t].pc = "except2"]
  /\ UNCHANGED <<label, modal, shown, dialog>>
  /\ UNCHANGED engineVars

\* root.after(0, lambda: self.progress_var.set("Ready"))
TaskExcept2(t) ==
  /\ thr[t].pc = "except2"
  /\ queue' = Append(queue, Callback("ready", t, NoText, NoResult))
  /\ thr' = [thr EXCEPT ![t].pc = "exit"]
  /\ UNCHANGED <<label, modal, shown, dialog>>
  /\ UNCHANGED engineVars

\* The except block is left: Python unbinds e, the variable both lambdas
\* posted from the block close over.
TaskExit(t) ==
  /\ thr[t].pc = "exit"
  /\ thr' = [thr EXCEPT ![t].pc = "done", ![t].e = NoText]
  /\ UNCHANGED <<queue, label, modal, shown, dialog>>
  /\ UNCHANGED engineVars

\* ---- the Tk event loop (also the one nested in an open message box)
\* The callback the loop runs next.
NextCallback == Head(queue)

\* The text of the box compression_complete / extraction_complete shows.
CompleteText(result) ==
  IF result.op = "compress"
  THEN Text("Compression complete!",
            <<result.files, result.original_size, result.compressed_size,
              result.ratio.num, result.ratio.den>>)
  ELSE Text("Extraction complete!", <<result.files>>)

RunCallback ==
  /\ queue # <<>>
  /\ queue' = Tail(queue)
  /\ LET cb == NextCallback
     IN CASE cb.kind = "progress" ->
               /\ label' = cb.msg
               /\ thr' = [thr EXCEPT ![cb.t].applied = Append(@, cb.msg)]
               /\ UNCHANGED <<modal, shown>>
          [] cb.kind = "ready" ->
               /\ label' = Ready
               /\ UNCHANGED <<thr, modal, shown>>
          [] cb.kind = "error" ->
               \* str(e): e is still bound only while the task is in its
               \* except block; afterwards the lambda raises NameError, which
               \* Tk reports on stderr, and no box is shown.
               /\ IF thr[cb.t].e # NoText
                  THEN /\ modal' = Append(modal, Box("showerror", cb.t, thr[cb.t].e,
                                                     "none", NoCall))
                       /\ shown' = shown \cup {[kind |-> "showerror", t |-> cb.t,
                                                text |-> thr[cb.t].e]}
                  ELSE UNCHANGED <<modal, shown>>
               /\ UNCHANGED <<thr, label>>
          [] OTHER ->
               /\ modal' = Append(modal, Box("showinfo", cb.t, CompleteText(cb.result),
                                             "complete", NoCall))
               /\ shown' = shown \cup {[kind |-> "showinfo", t |-> cb.t,
                                        text |-> CompleteText(cb.result)]}
               /\ UNCHANGED <<thr, label>>
  /\ UNCHANGED dialog
  /\ UNCHANGED engineVars

\* The steps of a run in which the user starts at most MaxTasks tasks.
Next ==
  \/ compress_dialog
  \/ SetSource
  \/ SetOutput
  \/ SetFormat
  \/ do_compress(MaxTasks)
  \/ CancelDialog
  \/ extract_dialog(MaxTasks)
  \/ on_double_click
  \/ AnswerYes(MaxTasks)
  \/ AnswerNo
  \/ Dismiss
  \/ \E t \in Tasks : TaskBegin(t)
  \/ \E t \in Tasks : TaskStep(t)
  \/ \E t \in Tasks : TaskReturn(t)
  \/ \E t \in Tasks : TaskExcept1(t)
  \/ \E t \in Tasks : TaskExcept2(t)
  \/ \E t \in Tasks : TaskExit(t)
  \/ RunCallback

\* The application as installed with both optional libraries.
InitGui == Init /\ HAS_7Z /\ HAS_RAR

Spec == InitGui /\ [][Next]_vars

\* The runs in which the user starts a single task.
NextSingle ==
  \/ compress_dialog
  \/ SetSource
  \/ SetOutput
  \/ SetFormat
  \/ do_compress(1)
  \/ CancelDialog
  \/ extract_dialog(1)
  \/ on_double_click
  \/ AnswerYes(1)
  \/ AnswerNo
  \/ Dismiss
  \/ \E t \in Tasks : TaskBegin(t)
  \/ \E t \in Tasks : TaskStep(t)
  \/ \E t \in Tasks : TaskReturn(t)
  \/ \E t \in Tasks : TaskExcept1(t)
  \/ \E t \in Tasks : TaskExcept2(t)
  \/ \E t \in Tasks : TaskExit(t)
  \/ RunCallback

SpecSingle == InitGui /\ [][NextSingle]_vars

\* ============================================================ properties
\* ---- the engine, under SpecEngine

\* name ends, case-insensitively, in '.' + the parts of e
EndsWithExt(n, e) ==
  /\ Len(n) > Len(e)
  /\ LowerAll(SubSeq(n, Len(n) - Len(e) + 1, Len(n))) = e

CodecOfExt(e) ==
  CASE e = <<"zip">> -> "_decompress_zip"
    [] e = <<"rar">> -> "_decompress_rar"
    [] e = <<"7z">>  -> "_decompress_7z"
    [] OTHER         -> "_decompress_tar"

\* C3: decompress of an existing archive whose name ends in a supported
\* extension calls the codec of that extension; of any other existing file
\* it raises ValueError and calls no codec.
C3_DecompressByExtension ==
  (last.call.op = "decompress" /\ last.call.exists) =>
    IF \E e \in SUPPORTED_DECOMPRESS : EndsWithExt(last.call.src, e)
    THEN \A e \in SUPPORTED_DECOMPRESS :
           EndsWithExt(last.call.src, e) => last.called.codec = CodecOfExt(e)
    ELSE last.exc.type = "ValueError" /\ last.called = NoCodec

\* C4: compress of an existing source calls exactly the codec its
\* format_type names (tar with the matching compression mode); any other
\* format_type raises ValueError, calls no codec and creates no file.
C4_CompressDispatch ==
  (last.call.op = "compress" /\ last.call.exists) =>
    LET f == last.call.fmt IN
    CASE f = "zip"     -> last.called = [codec |-> "_compress_zip", mode |-> "w"]
      [] f = "tar.gz"  -> last.called = [codec |-> "_compress_tar", mode |-> "w:gz"]
      [] f = "tgz"     -> last.called = [codec |-> "_compress_tar", mode |-> "w:gz"]
      [] f = "tar.bz2" -> last.called = [codec |-> "_compress_tar", mode |-> "w:bz2"]
      [] f = "tar.xz"  -> last.called = [codec |-> "_compress_tar", mode |-> "w:xz"]
      [] f = "7z"      -> last.called = [codec |-> "_compress_7z", mode |-> "w"]
      [] OTHER         -> /\ last.exc.type = "ValueError"
                          /\ last.called = NoCodec
                          /\ last.created = {}
                          /\ last.members = <<>>

C4_Witness ==
  /\ last.call.op = "compress"
  /\ last.call.fmt = "tar.bz2"
  /\ last.called.mode = "w:bz2"
  /\ last.result # NoResult

\* The regular files at or below src.
FilesUnder(src) ==
  IF src \in Files THEN {src}
  ELSE {p \in Files : Len(p) > Len(src) /\ \A i \in 1..Len(src) : p[i] = src[i]}

RECURSIVE SumSizes(_)
SumSizes(S) ==
  IF S = {} THEN 0
  ELSE LET p == CHOOSE q \in S : TRUE IN FileSize[p] + SumSizes(S \ {p})

\* C5: whatever calls came before on the same engine, a compress call's
\* result counts the regular files under its own source and sums their
\* sizes.
C5_ResultOfThisCallOnly ==
  (last.call.op = "compress" /\ last.result # NoResult) =>
    /\ last.result.files = Cardinality(FilesUnder(last.call.src))
    /\ last.result.original_size = SumSizes(FilesUnder(last.call.src))

C5_Witness ==
  /\ last.call.op = "compress"
  /\ last.call.src = <<"d">>
  /\ last.before.files > 0
  /\ last.before.size > 0
  /\ last.result # NoResult
  /\ last.result.files = 2
  /\ last.result.original_size = 3

\* C7: a call on a path that does not exist raises FileNotFoundError having
\* sent no message, called no codec and created nothing; the statistics are
\* zero afterwards.
C7_MissingPath ==
  (last.call.op # None /\ ~last.call.exists) =>
    /\ last.exc.type = "FileNotFoundError"
    /\ last.msgs = <<>>
    /\ last.called = NoCodec
    /\ last.members = <<>>
    /\ last.created = {}
    /\ last.result = NoResult
    /\ stats = ZeroStats

C7_Witness ==
  /\ last.call.op = "decompress"
  /\ ~last.call.exists
  /\ last.before.files > 0
  /\ last.exc.type = "FileNotFoundError"
  /\ stats = ZeroStats

NoDuplicates(s) == \A i, j \in 1..Len(s) : s[i] = s[j] => i = j

Range(s) == {s[i] : i \in 1..Len(s)}

\* C8: a compress call that ran its codec added, for a directory source,
\* each regular file below it once, named from the source's own name
\* downwards, and no directory; for a file source, the file's base name.
C8_Members ==
  (last.call.op = "compress" /\ last.result # NoResult) =>
    LET src == last.call.src IN
    IF src \in Files
    THEN last.members = << <<src[Len(src)]>> >>
    ELSE /\ NoDuplicates(last.members)
         /\ Len(last.members) = Cardinality(FilesUnder(src))
         /\ Range(last.members) =
              {SubSeq(p, Len(src), Len(p)) : p \in FilesUnder(src)}
         /\ \A m \in Range(last.members) : m[1] = src[Len(src)]

C8_Witness ==
  /\ last.call.op = "compress"
  /\ last.call.src = <<"d", "s">>
  /\ last.called.codec = "_compress_tar"
  /\ last.members = << <<"s", "b">> >>

\* C9: the ratio of a compress result never has a zero denominator; it is 0
\* when the original size is 0, else (1 - compressed/original) * 100, which
\* is at most 100 and negative when the archive is the larger.
C9_Ratio ==
  (last.result.op = "compress") =>
    LET r == last.result IN
    /\ r.ratio.den > 0
    /\ r.original_size = 0 => r.ratio.num = 0
    /\ r.original_size > 0 =>
         /\ r.ratio.num * r.original_size =
              (r.original_size - r.compressed_size) * 100 * r.ratio.den
         /\ r.ratio.num <= 100 * r.ratio.den
         /\ r.compressed_size > r.original_size => r.ratio.num < 0

C9_Witness ==
  /\ last.result.op = "compress"
  /\ last.call.src = <<"z">>
  /\ last.result.files = 1
  /\ last.result.original_size = 0
  /\ last.result.compressed_size > 0
  /\ last.result.ratio.num = 0

\* ---- the GUI

\* C1: at every moment at most one background task is running.
C1_AtMostOneTask == Cardinality({t \in Tasks : Running(t)}) <= 1

\* The callbacks of task t that the event loop has still to run.
Pending(t) == {i \in 1..Len(queue) : queue[i].t = t}

\* C2: once a task whose engine call raised has ended and its callbacks
\* have run, an error box with the exception's message has been shown.
C2_ErrorShown ==
  \A t \in Tasks :
    (thr[t].raised # NoExc /\ thr[t].pc = "done" /\ Pending(t) = {}) =>
      [kind |-> "showerror", t |-> t, text |-> thr[t].raised.msg] \in shown

IsPrefix(a, b) == Len(a) <= Len(b) /\ SubSeq(b, 1, Len(a)) = a

\* The progress messages task t has sent so far, in the order it sent them.
Emitted(t) ==
  MsgsOf(SubSeq(Plan(thr[t].call, HAS_7Z, HAS_RAR).steps, 1, thr[t].i - 1))

\* C6: the messages the event loop has applied to the label are, for each
\* task, the first of those it sent, in order; and when the single task
\* started has ended and every posted callback has run to its end, every
\* message has been applied and the label reads "Ready".
C6_ProgressInOrderThenReady ==
  /\ \A t \in Tasks : IsPrefix(thr[t].applied, Emitted(t))
  /\ ( /\ Started = 1
       /\ thr[1].pc = "done"
       /\ queue = <<>>
       /\ \A i \in 1..Len(modal) : modal[i].cont # "complete" )
     => (label = Ready /\ thr[1].applied = Emitted(1))

C6_Witness ==
  /\ Started = 1
  /\ thr[1].pc = "done"
  /\ thr[1].call.op = "compress"
  /\ thr[1].raised = NoExc
  /\ Len(thr[1].applied) = 2
  /\ queue = <<>>
  /\ modal = <<>>
  /\ label = Ready

\* C10: OK in the compress dialog with an empty source or archive name
\* shows an error, leaves the dialog open and starts no task; with both
\* filled in it closes the dialog and starts exactly one compress task with
\* the source, name and format of the dialog.
C10_OkButton ==
  [][ do_compress(MaxTasks) =>
        IF dialog.source = <<>> \/ dialog.output = <<>>
        THEN /\ Len(modal') = Len(modal) + 1
             /\ modal'[Len(modal')].kind = "showerror"
             /\ modal'[Len(modal')].text = Text("Please select source and output", <<>>)
             /\ dialog' = dialog
             /\ thr' = thr
        ELSE /\ ~dialog'.open
             /\ modal' = modal
             /\ \E t \in Tasks :
                  /\ thr[t].pc = "none"
                  /\ thr'[t].pc = "begin"
                  /\ thr'[t].call.op = "compress"
                  /\ thr'[t].call.src = dialog.source
                  /\ thr'[t].call.out = dialog.output
                  /\ thr'[t].call.fmt = dialog.fmt
                  /\ \A u \in Tasks \ {t} : thr'[u] = thr[u] ]_vars

C10_Witness ==
  /\ [kind |-> "showerror", t |-> 0,
      text |-> Text("Please select source and output", <<>>)] \in shown
  /\ ~dialog.open
  /\ thr[1].pc = "begin"
  /\ thr[1].call.op = "compress"
  /\ thr[1].call.src = <<"f">>
  /\ thr[1].call.out = <<"archive", "zip">>
  /\ thr[1].call.fmt = "tar.gz"
  /\ thr[2].pc = "none"

====
